---------------------------- MODULE Spec2Model ----------------------------
(***************************************************************************)
(* Station uptime (station_uptime.py): a line-oriented parser building the *)
(* station/charger/report maps, the interval merger, the per-station       *)
(* uptime calculator and the emitting main().                              *)
(*                                                                         *)
(* A line is modelled as the stripped line already cut at its whitespace:  *)
(* a sequence of tokens (strings).  The blank line is <<>>.                *)
(***************************************************************************)
EXTENDS Integers, Sequences, FiniteSets, TLC

VARIABLES
    pc,                   \* position in main(): "start", "parse", "compute", "emit", "except", "done"
    argc,                 \* len(argv)
    state,                \* parse_input: 0 no section, 1 stations, 2 reports
    station_to_chargers,  \* parse_input: station id -> set of charger ids
    charger_to_station,   \* parse_input: charger id -> station id
    reports,              \* parse_input: charger id -> sequence of <<start, end, up>>
    i,                    \* parse_input: number of lines consumed
    ln,                   \* parse_input: the line last consumed
    failure,              \* the message of the exception raised, or NoFailure
    results,              \* compute_station_uptime: station id -> percentage
    out,                  \* standard output, a sequence of lines
    errout,               \* standard error, a sequence of lines
    status,               \* exit status, Running until main returns
    declared,             \* history: the station ids read as first token of a station-mode line
    intervals,            \* merge_intervals: the argument list
    merged,               \* merge_intervals(intervals), once pc = "merged"
    remerged              \* merge_intervals(merged), once pc = "remerged"

vars == <<pc, argc, state, station_to_chargers, charger_to_station, reports, i, ln,
          failure, results, out, errout, status, declared, intervals, merged, remerged>>

Running == "Running"
EmptyMap == <<>>

---------------------------------------------------------------------------
(* Bounds of the model *)

MaxLines == 5
MaxTime == 4
MaxIntervals == 3
MaxReports == 2
MaxStamp == 3

---------------------------------------------------------------------------
(* Small helpers for Python built-ins *)

Max2(a, b) == IF a >= b THEN a ELSE b
Min2(a, b) == IF a <= b THEN a ELSE b

MinOf(S) == CHOOSE x \in S : \A y \in S : x <= y
MaxOf(S) == CHOOSE x \in S : \A y \in S : x >= y

\* sorted(d.keys()) for integer keys: the ascending sequence of a finite set
RECURSIVE SortedSeq(_)
SortedSeq(S) ==
    IF S = {} THEN <<>>
    ELSE LET m == MinOf(S) IN <<m>> \o SortedSeq(S \ {m})

\* Python's tuple order on pairs: lexicographic
PairLE(p, q) == p[1] < q[1] \/ (p[1] = q[1] /\ p[2] <= q[2])

RECURSIVE InsertPair(_, _)
InsertPair(p, sorted) ==
    IF sorted = <<>> THEN <<p>>
    ELSE IF PairLE(p, Head(sorted)) THEN <<p>> \o sorted
    ELSE <<Head(sorted)>> \o InsertPair(p, Tail(sorted))

\* list.sort() on a list of pairs
RECURSIVE SortPairs(_)
SortPairs(s) ==
    IF s = <<>> THEN <<>>
    ELSE InsertPair(Head(s), SortPairs(Tail(s)))

---------------------------------------------------------------------------
(* merge_intervals *)

Normalize(ivs) == SelectSeq(ivs, LAMBDA p : p[2] > p[1])

RECURSIVE Sweep(_, _, _, _)

\* faulty variant of Sweep: touching intervals are not merged (s < ce for s <= ce)
SweepStrict(rest, cs, ce, acc) ==
    IF rest = <<>> THEN Append(acc, <<cs, ce>>)
    ELSE LET s == Head(rest)[1]
             e == Head(rest)[2]
         IN  IF s < ce
             THEN Sweep(Tail(rest), cs, IF e > ce THEN e ELSE ce, acc)
             ELSE Sweep(Tail(rest), s, e, Append(acc, <<cs, ce>>))

\* faulty variant of Sweep: the final open interval is never appended (line 93 missing)
SweepNoFinal(rest, cs, ce, acc) ==
    IF rest = <<>> THEN acc
    ELSE LET s == Head(rest)[1]
             e == Head(rest)[2]
         IN  IF s <= ce
             THEN Sweep(Tail(rest), cs, IF e > ce THEN e ELSE ce, acc)
             ELSE Sweep(Tail(rest), s, e, Append(acc, <<cs, ce>>))

\* the sweep of lines 85-93: rest is norm[1:] still to visit, <<cs, ce>> the open interval
Sweep(rest, cs, ce, acc) ==
    IF rest = <<>> THEN Append(acc, <<cs, ce>>)
    ELSE LET s == Head(rest)[1]
             e == Head(rest)[2]
         IN  IF s <= ce
             THEN Sweep(Tail(rest), cs, IF e > ce THEN e ELSE ce, acc)
             ELSE Sweep(Tail(rest), s, e, Append(acc, <<cs, ce>>))

\* faulty variant of merge_intervals: sorted but never merged
merge_unmerged(ivs) == SortPairs(Normalize(ivs))

merge_intervals(ivs) ==
    IF ivs = <<>> THEN <<>>
    ELSE LET norm == Normalize(ivs)
         IN  IF norm = <<>> THEN <<>>
             ELSE LET srt == SortPairs(norm)
                  IN  Sweep(Tail(srt), srt[1][1], srt[1][2], <<>>)

---------------------------------------------------------------------------
(* clipped_total *)

RECURSIVE clipped_total(_, _, _)
clipped_total(ivs, clip_start, clip_end) ==
    IF ivs = <<>> THEN 0
    ELSE LET a == Max2(Head(ivs)[1], clip_start)
             b == Min2(Head(ivs)[2], clip_end)
         IN  (IF b > a THEN b - a ELSE 0) + clipped_total(Tail(ivs), clip_start, clip_end)

---------------------------------------------------------------------------
(* compute_station_uptime *)

\* lines 112-117: the reports of every charger of the station, one list
RECURSIVE CollectReports(_, _)
CollectReports(cids, reps) ==
    IF cids = <<>> THEN <<>>
    ELSE (IF Head(cids) \in DOMAIN reps THEN reps[Head(cids)] ELSE <<>>)
         \o CollectReports(Tail(cids), reps)

\* faulty variant of StationReports: every reported charger, whoever owns it
StationReportsAll(chargers, reps) == CollectReports(SortedSeq(DOMAIN reps), reps)

\* the set is visited in ascending order: min, max and the sorted merge do not
\* depend on the order of the visit
StationReports(chargers, reps) == CollectReports(SortedSeq(chargers), reps)

all_starts(rs) == {rs[k][1] : k \in DOMAIN rs}
all_ends(rs) == {rs[k][2] : k \in DOMAIN rs}

RECURSIVE up_intervals(_)

\* faulty variant of up_intervals: the up flag is not looked at
up_intervals_all(rs) ==
    IF rs = <<>> THEN <<>>
    ELSE <<<<Head(rs)[1], Head(rs)[2]>>>> \o up_intervals(Tail(rs))

\* lines 116-117: the <<s, e>> of the up reports, in list order
up_intervals(rs) ==
    IF rs = <<>> THEN <<>>
    ELSE (IF Head(rs)[3] THEN <<<<Head(rs)[1], Head(rs)[2]>>>> ELSE <<>>)
         \o up_intervals(Tail(rs))

window_start(rs) == MinOf(all_starts(rs))
window_end(rs) == MaxOf(all_ends(rs))

up_merged(rs) == merge_intervals(up_intervals(rs))
up_time(rs) == clipped_total(up_merged(rs), window_start(rs), window_end(rs))
total(rs) == window_end(rs) - window_start(rs)

\* line 129, before the clamp
RawPct(rs) == (up_time(rs) * 100) \div total(rs)

\* lines 130-131
Clamp(p) == IF p < 0 THEN 0 ELSE IF p > 100 THEN 100 ELSE p

StationUptime(chargers, reps) ==
    LET rs == StationReports(chargers, reps)
    IN  IF rs = <<>> THEN 0
        ELSE IF window_end(rs) <= window_start(rs) THEN 0
        ELSE Clamp(RawPct(rs))

compute_station_uptime(stc, reps) ==
    [station_id \in DOMAIN stc |-> StationUptime(stc[station_id], reps)]

---------------------------------------------------------------------------
(* Tokens and lines *)

\* int(tok): the tokens int() accepts, with their values; any other token raises ValueError
IntTable ==
    ("0" :> 0) @@ ("1" :> 1) @@ ("2" :> 2) @@ ("3" :> 3) @@ ("4" :> 4) @@
    ("+2" :> 2) @@ ("7" :> 7) @@ ("8" :> 8)

IsInt(tok) == tok \in DOMAIN IntTable
int(tok) == IntTable[tok]

\* str.lower() on the flag tokens
lower(tok) ==
    CASE tok = "True" -> "true"
      [] tok = "FALSE" -> "false"
      [] OTHER -> tok

\* tok.startswith('#') and tok.startswith('[') on the tokens of the model
StartsWithHash(tok) == tok \in {"#", "#c"}
StartsWithBracket(tok) == tok \in {"[Stations]", "[Charger", "[Other]"}

StationsMarker == <<"[Stations]">>
ReportsMarker == <<"[Charger", "Availability", "Reports]">>

\* The lines a document is made of
SpecialLines ==
    {<<>>, <<"#c">>, StationsMarker, ReportsMarker, <<"[Other]">>}

StationLines ==
    {<<sid>> \o cs : sid \in {"1", "+2"},
                     cs \in {<<>>, <<"7">>, <<"8">>, <<"7", "8">>}}
    \cup {<<"x">>, <<"1", "x">>}

ReportLines ==
    {<<cid, iv[1], iv[2], flag>> :
        cid \in {"7", "8"},
        iv \in {<<"0", "2">>, <<"1", "3">>, <<"2", "4">>},
        flag \in {"true", "FALSE"}}
    \cup {<<"7", "0", "2">>, <<"7", "x", "2", "true">>, <<"7", "0", "2", "yes">>}

Lines == SpecialLines \cup StationLines \cup ReportLines

---------------------------------------------------------------------------
(* parse_input *)

NoFailure == <<>>

RECURSIVE BindChargers(_, _, _, _)

\* faulty variant of BindChargers: a charger is rebound without the check of line 48
BindChargersUnchecked(cids, station_id, stc, c2s) ==
    IF cids = <<>> THEN [failure |-> NoFailure, stc |-> stc, c2s |-> c2s]
    ELSE BindChargers(Tail(cids), station_id,
                      [stc EXCEPT ![station_id] = @ \cup {Head(cids)}],
                      (Head(cids) :> station_id) @@ c2s)

\* lines 47-51: bind the chargers of one station line, in order
BindChargers(cids, station_id, stc, c2s) ==
    IF cids = <<>> THEN [failure |-> NoFailure, stc |-> stc, c2s |-> c2s]
    ELSE LET cid == Head(cids)
         IN  IF cid \in DOMAIN c2s /\ c2s[cid] # station_id
             THEN [failure |-> <<"Charger ", cid, " appears under multiple stations.">>,
                   stc |-> stc, c2s |-> c2s]
             ELSE BindChargers(Tail(cids), station_id,
                               [stc EXCEPT ![station_id] = @ \cup {cid}],
                               (cid :> station_id) @@ c2s)

\* lines 30-51: one line in station mode
ParseStationLine(line, stc, c2s) ==
    LET parts == line
    IN  IF Len(parts) = 0
        THEN [failure |-> NoFailure, stc |-> stc, c2s |-> c2s]
        ELSE IF ~IsInt(parts[1])
        THEN [failure |-> <<"Invalid station line (station id): ", line>>,
              stc |-> stc, c2s |-> c2s]
        ELSE IF \E k \in 2..Len(parts) : ~IsInt(parts[k])
        THEN [failure |-> <<"Invalid charger id on station line: ", line>>,
              stc |-> stc, c2s |-> c2s]
        ELSE LET station_id == int(parts[1])
                 charger_ids == [k \in 1..(Len(parts) - 1) |-> int(parts[k + 1])]
                 stc1 == IF station_id \in DOMAIN stc THEN stc
                         ELSE stc @@ (station_id :> {})
             IN  BindChargers(charger_ids, station_id, stc1, c2s)

\* line 71: reports.setdefault(cid, []).append(t)
AppendReport(reps, cid, t) ==
    IF cid \in DOMAIN reps THEN [reps EXCEPT ![cid] = Append(@, t)]
    ELSE reps @@ (cid :> <<t>>)

\* faulty variant of ParseReportLine: the ValueError of int() is not caught and rewrapped
ParseReportLineUnwrapped(line, reps) ==
    LET parts == line
    IN  IF Len(parts) = 0 THEN [failure |-> NoFailure, reports |-> reps]
        ELSE IF StartsWithBracket(parts[1]) THEN [failure |-> NoFailure, reports |-> reps]
        ELSE IF Len(parts) # 4
        THEN [failure |-> <<"Invalid report line (need 4 fields): ", line>>, reports |-> reps]
        ELSE IF ~(IsInt(parts[1]) /\ IsInt(parts[2]) /\ IsInt(parts[3]))
        THEN [failure |-> <<"invalid literal for int() with base 10: ",
                            CHOOSE k \in 1..3 : ~IsInt(parts[k])>>, reports |-> reps]
        ELSE LET up_str == lower(parts[4])
             IN  IF up_str \notin {"true", "false"}
                 THEN [failure |-> <<"Invalid up flag (must be true/false): ", line>>,
                       reports |-> reps]
                 ELSE [failure |-> NoFailure,
                       reports |-> AppendReport(reps, int(parts[1]),
                                       <<int(parts[2]), int(parts[3]), up_str = "true">>)]

\* lines 53-71: one line in report mode
ParseReportLine(line, reps) ==
    LET parts == line
    IN  IF Len(parts) = 0 THEN [failure |-> NoFailure, reports |-> reps]
        ELSE IF StartsWithBracket(parts[1]) THEN [failure |-> NoFailure, reports |-> reps]
        ELSE IF Len(parts) # 4
        THEN [failure |-> <<"Invalid report line (need 4 fields): ", line>>, reports |-> reps]
        ELSE IF ~(IsInt(parts[1]) /\ IsInt(parts[2]) /\ IsInt(parts[3]))
        THEN [failure |-> <<"Invalid numeric field in report line: ", line>>, reports |-> reps]
        ELSE LET up_str == lower(parts[4])
             IN  IF up_str \notin {"true", "false"}
                 THEN [failure |-> <<"Invalid up flag (must be true/false): ", line>>,
                       reports |-> reps]
                 ELSE [failure |-> NoFailure,
                       reports |-> AppendReport(reps, int(parts[1]),
                                       <<int(parts[2]), int(parts[3]), up_str = "true">>)]

\* lines 18-22: blank or comment
IsSkipped(line) == IF Len(line) = 0 THEN TRUE ELSE StartsWithHash(line[1])

\* a line that reaches the mode dispatch of line 30
IsContent(line) ==
    ~IsSkipped(line) /\ line # StationsMarker /\ line # ReportsMarker

\* lines 15-17: the loop takes the next line
Take(line) ==
    /\ pc = "parse"
    /\ i < MaxLines
    /\ ln' = line
    /\ i' = i + 1

SkipLine ==
    \E line \in Lines :
        /\ Take(line)
        /\ IsSkipped(line)
        /\ UNCHANGED <<pc, argc, state, station_to_chargers, charger_to_station, reports,
                       failure, results, out, errout, status, declared, intervals, merged, remerged>>

EnterStations ==
    \E line \in Lines :
        /\ Take(line)
        /\ ~IsSkipped(line)
        /\ line = StationsMarker
        /\ state' = 1
        /\ UNCHANGED <<pc, argc, station_to_chargers, charger_to_station, reports,
                       failure, results, out, errout, status, declared, intervals, merged, remerged>>

EnterReports ==
    \E line \in Lines :
        /\ Take(line)
        /\ ~IsSkipped(line)
        /\ line = ReportsMarker
        /\ state' = 2
        /\ UNCHANGED <<pc, argc, station_to_chargers, charger_to_station, reports,
                       failure, results, out, errout, status, declared, intervals, merged, remerged>>

StationLine ==
    \E line \in Lines :
        /\ Take(line)
        /\ IsContent(line)
        /\ state = 1
        /\ LET r == ParseStationLine(line, station_to_chargers, charger_to_station)
           IN  /\ station_to_chargers' = r.stc
               /\ charger_to_station' = r.c2s
               /\ failure' = r.failure
               /\ pc' = IF r.failure = NoFailure THEN "parse" ELSE "except"
        /\ declared' = IF IsInt(line[1]) THEN declared \cup {int(line[1])} ELSE declared
        /\ UNCHANGED <<argc, state, reports, results, out, errout, status,
                       intervals, merged, remerged>>

ReportLine ==
    \E line \in Lines :
        /\ Take(line)
        /\ IsContent(line)
        /\ state = 2
        /\ LET r == ParseReportLine(line, reports)
           IN  /\ reports' = r.reports
               /\ failure' = r.failure
               /\ pc' = IF r.failure = NoFailure THEN "parse" ELSE "except"
        /\ UNCHANGED <<argc, state, station_to_chargers, charger_to_station, results,
                       out, errout, status, declared, intervals, merged, remerged>>

\* faulty variant of IgnoredLine: the dispatch ends in a plain else that parses a report
IgnoredLineAsReport ==
    \E line \in Lines :
        /\ Take(line)
        /\ IsContent(line)
        /\ state # 1
        /\ state # 2
        /\ LET r == ParseReportLine(line, reports)
           IN  /\ reports' = r.reports
               /\ failure' = r.failure
               /\ pc' = IF r.failure = NoFailure THEN "parse" ELSE "except"
        /\ UNCHANGED <<argc, state, station_to_chargers, charger_to_station, results,
                       out, errout, status, declared, intervals, merged, remerged>>

\* lines 72-73: no section entered yet
IgnoredLine ==
    \E line \in Lines :
        /\ Take(line)
        /\ IsContent(line)
        /\ state # 1
        /\ state # 2
        /\ UNCHANGED <<pc, argc, state, station_to_chargers, charger_to_station, reports,
                       failure, results, out, errout, status, declared, intervals, merged, remerged>>

\* line 75: the lines are exhausted, parse_input returns
EndOfInput ==
    /\ pc = "parse"
    /\ pc' = "compute"
    /\ UNCHANGED <<argc, state, station_to_chargers, charger_to_station, reports, i, ln,
                   failure, results, out, errout, status, declared, intervals, merged, remerged>>

---------------------------------------------------------------------------
(* main *)

\* str(e) of the OSError of open()
IOFailure == <<"[Errno 2] No such file or directory: 'input.txt'">>

\* lines 136-138
Usage ==
    /\ pc = "start"
    /\ argc # 2
    /\ errout' = Append(errout, <<"Usage: station_uptime.py <input_file_path>">>)
    /\ status' = 2
    /\ pc' = "done"
    /\ UNCHANGED <<argc, state, station_to_chargers, charger_to_station, reports, i, ln,
                   failure, results, out, declared, intervals, merged, remerged>>

\* line 6: the file opens and is read
OpenFile ==
    /\ pc = "start"
    /\ argc = 2
    /\ pc' = "parse"
    /\ UNCHANGED <<argc, state, station_to_chargers, charger_to_station, reports, i, ln,
                   failure, results, out, errout, status, declared, intervals, merged, remerged>>

\* line 6: open() raises OSError
OpenFails ==
    /\ pc = "start"
    /\ argc = 2
    /\ failure' = IOFailure
    /\ pc' = "except"
    /\ UNCHANGED <<argc, state, station_to_chargers, charger_to_station, reports, i, ln,
                   results, out, errout, status, declared, intervals, merged, remerged>>

\* line 142
Compute ==
    /\ pc = "compute"
    /\ results' = compute_station_uptime(station_to_chargers, reports)
    /\ pc' = "emit"
    /\ UNCHANGED <<argc, state, station_to_chargers, charger_to_station, reports, i, ln,
                   failure, out, errout, status, declared, intervals, merged, remerged>>

\* faulty variant of EmitOrder: sorted(..., reverse=True)
EmitOrderReversed(res) ==
    LET asc == SortedSeq(DOMAIN res)
    IN  [k \in 1..Len(asc) |-> asc[Len(asc) + 1 - k]]

\* line 143
EmitOrder(res) == SortedSeq(DOMAIN res)

\* lines 143-144: one iteration of the printing loop
EmitLine ==
    /\ pc = "emit"
    /\ Len(out) < Len(EmitOrder(results))
    /\ LET station_id == EmitOrder(results)[Len(out) + 1]
       IN  out' = Append(out, <<station_id, results[station_id]>>)
    /\ UNCHANGED <<pc, argc, state, station_to_chargers, charger_to_station, reports, i, ln,
                   failure, results, errout, status, declared, intervals, merged, remerged>>

\* line 145
Return0 ==
    /\ pc = "emit"
    /\ Len(out) = Len(EmitOrder(results))
    /\ status' = 0
    /\ pc' = "done"
    /\ UNCHANGED <<argc, state, station_to_chargers, charger_to_station, reports, i, ln,
                   failure, results, out, errout, declared, intervals, merged, remerged>>

\* faulty variant of Except: the sentinel is not printed
ExceptSilent ==
    /\ pc = "except"
    /\ errout' = Append(errout, <<"Error: ", failure>>)
    /\ status' = 1
    /\ pc' = "done"
    /\ UNCHANGED <<argc, state, station_to_chargers, charger_to_station, reports, i, ln,
                   failure, results, out, declared, intervals, merged, remerged>>

\* lines 146-149
Except ==
    /\ pc = "except"
    /\ out' = Append(out, <<"error">>)
    /\ errout' = Append(errout, <<"Error: ", failure>>)
    /\ status' = 1
    /\ pc' = "done"
    /\ UNCHANGED <<argc, state, station_to_chargers, charger_to_station, reports, i, ln,
                   failure, results, declared, intervals, merged, remerged>>

Init ==
    /\ pc = "start"
    /\ argc \in {1, 2, 3}
    /\ state = 0
    /\ station_to_chargers = EmptyMap
    /\ charger_to_station = EmptyMap
    /\ reports = EmptyMap
    /\ i = 0
    /\ ln = <<>>
    /\ failure = NoFailure
    /\ results = EmptyMap
    /\ out = <<>>
    /\ errout = <<>>
    /\ status = Running
    /\ declared = {}
    /\ intervals = <<>>
    /\ merged = <<>>
    /\ remerged = <<>>

Next ==
    \/ Usage
    \/ OpenFile
    \/ OpenFails
    \/ SkipLine
    \/ EnterStations
    \/ EnterReports
    \/ StationLine
    \/ ReportLine
    \/ IgnoredLine
    \/ EndOfInput
    \/ Compute
    \/ EmitLine
    \/ Return0
    \/ Except

Spec == Init /\ [][Next]_vars

---------------------------------------------------------------------------
(* merge_intervals on its own: any list of at most MaxIntervals pairs over 0..MaxTime *)

\* the caller builds the argument list
AppendInterval ==
    /\ pc = "merge"
    /\ Len(intervals) < MaxIntervals
    /\ \E s \in 0..MaxTime, e \in 0..MaxTime :
           intervals' = Append(intervals, <<s, e>>)
    /\ UNCHANGED <<pc, argc, state, station_to_chargers, charger_to_station, reports, i, ln,
                   failure, results, out, errout, status, declared, merged, remerged>>

Merge ==
    /\ pc = "merge"
    /\ merged' = merge_intervals(intervals)
    /\ pc' = "merged"
    /\ UNCHANGED <<argc, state, station_to_chargers, charger_to_station, reports, i, ln,
                   failure, results, out, errout, status, declared, intervals, remerged>>

Remerge ==
    /\ pc = "merged"
    /\ remerged' = merge_intervals(merged)
    /\ pc' = "remerged"
    /\ UNCHANGED <<argc, state, station_to_chargers, charger_to_station, reports, i, ln,
                   failure, results, out, errout, status, declared, intervals, merged>>

InitMerge ==
    /\ pc = "merge"
    /\ argc = 2
    /\ state = 0
    /\ station_to_chargers = EmptyMap
    /\ charger_to_station = EmptyMap
    /\ reports = EmptyMap
    /\ i = 0
    /\ ln = <<>>
    /\ failure = NoFailure
    /\ results = EmptyMap
    /\ out = <<>>
    /\ errout = <<>>
    /\ status = Running
    /\ declared = {}
    /\ intervals = <<>>
    /\ merged = <<>>
    /\ remerged = <<>>

NextMerge ==
    \/ AppendInterval
    \/ Merge
    \/ Remerge

SpecMerge == InitMerge /\ [][NextMerge]_vars

---------------------------------------------------------------------------
(* compute_station_uptime on its own: parsed models with at most MaxReports *)
(* reports over 0..MaxStamp                                                *)

\* the station sections "1 7 8 / 2" and "1 7 / 2 8", as parse_input leaves them
StationConfigs ==
    { (1 :> {7, 8}) @@ (2 :> {}),
      (1 :> {7}) @@ (2 :> {8}) }

OwnerOf(stc) ==
    [cid \in UNION {stc[s] : s \in DOMAIN stc} |->
        CHOOSE s \in DOMAIN stc : cid \in stc[s]]

RECURSIVE SumLen(_, _)
SumLen(reps, cids) ==
    IF cids = {} THEN 0
    ELSE LET c == CHOOSE x \in cids : TRUE
         IN  Len(reps[c]) + SumLen(reps, cids \ {c})

ReportCount(reps) == SumLen(reps, DOMAIN reps)

\* line 71 for one accepted report line
LoadReport ==
    /\ pc = "compute"
    /\ ReportCount(reports) < MaxReports
    /\ \E cid \in {7, 8}, s \in 0..MaxStamp, e \in 0..MaxStamp, up \in BOOLEAN :
           reports' = AppendReport(reports, cid, <<s, e, up>>)
    /\ UNCHANGED <<pc, argc, state, station_to_chargers, charger_to_station, i, ln,
                   failure, results, out, errout, status, declared, intervals, merged, remerged>>

InitUptime ==
    /\ pc = "compute"
    /\ argc = 2
    /\ state = 2
    /\ station_to_chargers \in StationConfigs
    /\ charger_to_station = OwnerOf(station_to_chargers)
    /\ reports = EmptyMap
    /\ i = 0
    /\ ln = <<>>
    /\ failure = NoFailure
    /\ results = EmptyMap
    /\ out = <<>>
    /\ errout = <<>>
    /\ status = Running
    /\ declared = DOMAIN station_to_chargers
    /\ intervals = <<>>
    /\ merged = <<>>
    /\ remerged = <<>>

NextUptime ==
    \/ LoadReport
    \/ Compute

SpecUptime == InitUptime /\ [][NextUptime]_vars

---------------------------------------------------------------------------
(* Properties *)

\* the set of reports of the chargers a station owns
ReportSetOf(station_id) ==
    UNION {{reports[c][k] : k \in DOMAIN reports[c]} :
              c \in station_to_chargers[station_id] \cap DOMAIN reports}

\* the number of time points of the window that lie in some up report
CoveredPoints(R, ws, we) ==
    Cardinality({t \in ws..(we - 1) : \E r \in R : r[3] /\ r[1] <= t /\ t < r[2]})

ExpectedUptime(station_id) ==
    LET R == ReportSetOf(station_id)
    IN  IF R = {} THEN 0
        ELSE LET ws == MinOf({r[1] : r \in R})
                 we == MaxOf({r[2] : r \in R})
             IN  IF we <= ws THEN 0
                 ELSE (CoveredPoints(R, ws, we) * 100) \div (we - ws)

\* C1: for every declared station the computed percentage is 0 when the station
\* has no chargers, no reports or an empty window, and otherwise
\* floor(C * 100 / (window_end - window_start)), C the number of time points of
\* the window covered by an up report of one of its chargers.
C1_UptimeValue ==
    pc = "emit" =>
        /\ DOMAIN results = DOMAIN station_to_chargers
        /\ \A station_id \in DOMAIN station_to_chargers :
               results[station_id] = ExpectedUptime(station_id)

\* a station whose window is half covered: one up report, one down report
C1_Witness ==
    /\ pc = "emit"
    /\ \E station_id \in DOMAIN results :
           /\ results[station_id] = 50
           /\ \E r \in ReportSetOf(station_id) : ~r[3]

\* the time points a list of pairs covers, each pair read as [s, e)
CoveredBy(seq) ==
    {t \in 0..MaxTime : \E k \in DOMAIN seq : seq[k][1] <= t /\ t < seq[k][2]}

\* C2: the merged list is ascending, its intervals are non-empty, disjoint and
\* non-adjacent, it covers exactly the points the input pairs with start < end
\* cover, and it is empty when no input pair has start < end.
C2_MergeCorrect ==
    pc = "merged" =>
        /\ \A k \in DOMAIN merged : merged[k][1] < merged[k][2]
        /\ \A k \in 1..(Len(merged) - 1) : merged[k][2] < merged[k + 1][1]
        /\ CoveredBy(merged) = CoveredBy(intervals)
        /\ (\A k \in DOMAIN intervals : intervals[k][2] <= intervals[k][1]) => merged = <<>>

\* three pairs, two of them touching, merged into two intervals
C2_Witness ==
    /\ pc = "merged"
    /\ Len(intervals) = 3
    /\ Len(merged) = 2
    /\ \E j \in DOMAIN intervals, k \in DOMAIN intervals :
           intervals[j][1] < intervals[j][2] /\ intervals[j][2] = intervals[k][1]
           /\ intervals[k][1] < intervals[k][2]

\* what a malformed line is, by mode (sections 4.1 and 7 of the format)
Conflicts(line, c2s) ==
    \E k \in 2..Len(line) :
        int(line[k]) \in DOMAIN c2s /\ c2s[int(line[k])] # int(line[1])

AllInts(line) == \A k \in DOMAIN line : IsInt(line[k])

MalformedStationLine(line, c2s) ==
    IF AllInts(line) THEN Conflicts(line, c2s) ELSE TRUE

MalformedReportLine(line) ==
    IF StartsWithBracket(line[1]) THEN FALSE
    ELSE IF Len(line) # 4 THEN TRUE
    ELSE ~(IsInt(line[1]) /\ IsInt(line[2]) /\ IsInt(line[3])
           /\ line[4] \in {"true", "True", "false", "FALSE"})

\* a step of the parsing loop
LineStep == pc = "parse" /\ i' = i + 1

C3_Outcome ==
    (pc = "done" /\ failure # NoFailure) =>
        /\ out = << <<"error">> >>
        /\ errout = << <<"Error: ", failure>> >>
        /\ status = 1

C3_Detected ==
    (LineStep /\ IsContent(ln')) =>
        /\ (state = 1 /\ MalformedStationLine(ln', charger_to_station)) => failure' # NoFailure
        /\ (state = 2 /\ MalformedReportLine(ln')) => failure' # NoFailure
        /\ failure' # NoFailure => pc' = "except"

C3_Stopped ==
    failure # NoFailure =>
        /\ pc \in {"except", "done"}
        /\ UNCHANGED <<i, ln, state, station_to_chargers, charger_to_station, reports, failure>>

\* C3: a malformed line or an unreadable file ends the run with the single line
\* `error` on standard output and no result line, one `Error: <message>` line on
\* the error channel and exit status 1; the malformed line raises at once and
\* no line is consumed after it.
C3_ErrorRun == [](C3_Outcome) /\ [][C3_Detected]_vars /\ [][C3_Stopped]_vars

\* the run that ended on a report line with three fields
C3_Witness ==
    /\ pc = "done"
    /\ status = 1
    /\ Len(failure) = 2
    /\ failure[1] = "Invalid report line (need 4 fields): "
    /\ Len(ln) = 3

IsConflict(f) ==
    IF Len(f) = 3 THEN f[1] = "Charger " /\ f[3] = " appears under multiple stations."
    ELSE FALSE

C4_Disjoint ==
    failure = NoFailure =>
        \A a \in DOMAIN station_to_chargers, b \in DOMAIN station_to_chargers :
            a # b => station_to_chargers[a] \cap station_to_chargers[b] = {}

C4_Raised ==
    (LineStep /\ state = 1 /\ IsContent(ln') /\ AllInts(ln')) =>
        IF Conflicts(ln', charger_to_station)
        THEN IsConflict(failure')
        ELSE failure' = NoFailure /\ pc' = "parse"

\* C4: a station line naming a charger already bound to another station fails
\* with the multi-station error, a line naming only unbound chargers or chargers
\* of the same station does not fail, and as long as nothing failed the charger
\* sets of distinct stations are pairwise disjoint.
C4_ConflictDetected == [](C4_Disjoint) /\ [][C4_Raised]_vars

\* a charger of station 1 claimed again by a line of station 2
C4_Witness ==
    /\ pc = "except"
    /\ IsConflict(failure)
    /\ Len(ln) >= 2
    /\ int(ln[1]) # charger_to_station[failure[2]]

LineTemplates ==
    {"Invalid station line (station id): ",
     "Invalid charger id on station line: ",
     "Invalid report line (need 4 fields): ",
     "Invalid numeric field in report line: ",
     "Invalid up flag (must be true/false): "}

\* a failure raised while a line is parsed
ParserFailure == failure # NoFailure /\ failure # IOFailure

\* C5 as stated: every failure of the parser is of one of the six kinds and
\* carries the text of the offending line.
C5_EveryKindCarriesLine ==
    ParserFailure =>
        /\ Len(failure) = 2
        /\ failure[1] \in LineTemplates \cup {"Charger "}
        /\ failure[2] = ln

\* C5 (amended): every failure raised while a line is parsed is of exactly one
\* of the six kinds; the five format kinds carry the text of the offending line,
\* the multi-station kind carries the id of the charger, which is one of the
\* charger ids of the offending line, and not the line.
C5_KindsAndPayload ==
    ParserFailure =>
        \/ /\ Len(failure) = 2
           /\ failure[1] \in LineTemplates
           /\ failure[2] = ln
        \/ /\ IsConflict(failure)
           /\ \E k \in 2..Len(ln) : IsInt(ln[k]) /\ int(ln[k]) = failure[2]

\* a reported multi-station failure, and a reported bad up flag
C5_Witness ==
    /\ pc = "done"
    /\ \/ IsConflict(failure)
       \/ (Len(failure) = 2 /\ failure[1] = "Invalid up flag (must be true/false): ")
    /\ errout = << <<"Error: ", failure>> >>

\* C6: a successful run prints exactly one line <station_id, percentage> for
\* every station id read as the first token of a station-mode line, none for any
\* other id, in strictly ascending order of station id, and exits with status 0.
C6_SuccessOutput ==
    (pc = "done" /\ argc = 2 /\ failure = NoFailure) =>
        /\ status = 0
        /\ errout = <<>>
        /\ {out[k][1] : k \in DOMAIN out} = declared
        /\ \A k \in 1..(Len(out) - 1) : out[k][1] < out[k + 1][1]
        /\ \A k \in DOMAIN out :
               /\ Len(out[k]) = 2
               /\ out[k][2] = StationUptime(station_to_chargers[out[k][1]], reports)

\* two stations printed, one of them without any charger
C6_Witness ==
    /\ pc = "done"
    /\ status = 0
    /\ Len(out) = 2
    /\ \E s \in declared : station_to_chargers[s] = {}
    /\ \E k \in DOMAIN out : out[k][2] > 0

DeclaredChargers == UNION {station_to_chargers[s] : s \in DOMAIN station_to_chargers}

\* the reports of the chargers some station owns
OwnedReports == [cid \in DOMAIN reports \cap DeclaredChargers |-> reports[cid]]

C7_Excluded ==
    (pc \in {"emit", "done"} /\ failure = NoFailure) =>
        results = compute_station_uptime(station_to_chargers, OwnedReports)

C7_Accepted ==
    (LineStep /\ state = 2 /\ IsContent(ln') /\ ~MalformedReportLine(ln')
        /\ ~StartsWithBracket(ln'[1])) =>
        /\ failure' = NoFailure
        /\ pc' = "parse"
        /\ UNCHANGED <<station_to_chargers, charger_to_station, state>>
        /\ \A cid \in DOMAIN reports : cid # int(ln'[1]) =>
               (cid \in DOMAIN reports' /\ reports'[cid] = reports[cid])

\* C7: a well-formed report line is accepted whatever its charger id and changes
\* nothing but that charger's report list, and the results are a function of the
\* station map and of the reports of the chargers some station owns: two inputs
\* that differ only in report lines of chargers no station owns parse alike and
\* give the same percentages.
C7_OrphanReportsIgnored == [](C7_Excluded) /\ [][C7_Accepted]_vars

\* a finished run with a report of an unowned charger that reaches outside the
\* window of a station at 100
C7_Witness ==
    /\ pc = "done"
    /\ status = 0
    /\ \E cid \in DOMAIN reports : cid \notin DeclaredChargers
    /\ \E s \in DOMAIN results :
           /\ results[s] = 100
           /\ StationUptime(station_to_chargers[s] \cup DOMAIN reports, reports) < 100

\* C8: merging a merged list gives the same list back.
C8_MergeIdempotent ==
    pc = "remerged" => remerged = merged

\* a second merge of a list of two intervals that came out of three pairs
C8_Witness ==
    /\ pc = "remerged"
    /\ Len(intervals) = 3
    /\ Len(merged) = 2
    /\ Len(remerged) = 2

C9_StartsIdle ==
    i = 0 =>
        /\ state = 0
        /\ station_to_chargers = EmptyMap
        /\ charger_to_station = EmptyMap
        /\ reports = EmptyMap

C9_Ignored ==
    (LineStep /\ state = 0) =>
        /\ failure' = NoFailure
        /\ pc' = "parse"
        /\ UNCHANGED <<station_to_chargers, charger_to_station, reports, results, out, errout>>
        /\ state' # 0 => ln' \in {StationsMarker, ReportsMarker}

\* C9: the parser starts in no mode with empty maps, and a line read before the
\* first section marker never fails and leaves the three maps as they are; only
\* a marker line leaves the no-mode state.
C9_PreambleIgnored == [](C9_StartsIdle) /\ [][C9_Ignored]_vars

\* a malformed line consumed before any marker, the parse still going
C9_Witness ==
    /\ pc = "parse"
    /\ state = 0
    /\ i >= 2
    /\ ln = <<"7", "0", "2", "yes">>

\* C10: for a station with a report and a positive window the covered duration
\* lies between 0 and the window duration, so the quotient before the clamp is
\* already in 0..100 and is the percentage returned.
C10_ClampIdle ==
    pc = "emit" =>
        \A station_id \in DOMAIN station_to_chargers :
            LET rs == StationReports(station_to_chargers[station_id], reports)
            IN  IF rs = <<>> THEN TRUE
                ELSE window_end(rs) > window_start(rs) =>
                        /\ 0 <= up_time(rs)
                        /\ up_time(rs) <= total(rs)
                        /\ RawPct(rs) \in 0..100
                        /\ results[station_id] = RawPct(rs)

\* two overlapping up reports that together cover the whole window
C10_Witness ==
    /\ pc = "emit"
    /\ \E station_id \in DOMAIN station_to_chargers :
           LET rs == StationReports(station_to_chargers[station_id], reports)
           IN  /\ Len(up_intervals(rs)) = 2
               /\ Len(up_merged(rs)) = 1
               /\ clipped_total(up_intervals(rs), window_start(rs), window_end(rs)) > total(rs)
               /\ results[station_id] = 100

=============================================================================
